---- MODULE Spec2Model ----
(***************************************************************************)
(* Model of the real-time reload server of Right-Dev                       *)
(* (services/realTimeServer.ts: class RealTimeServer) and of the command   *)
(* that drives it (commands/startDev.ts, detectors/*.ts).                  *)
(*                                                                         *)
(* Spec       the lifecycle of one RealTimeServer object: start(), stop(), *)
(*            the callbacks Node queues for listen(), WebSocket            *)
(*            connections and watcher change events.                       *)
(* SpecLife   start(), stop() and the queued callbacks under Node's        *)
(*            scheduling of process.nextTick.                              *)
(* SpecFault  Spec with the watcher's error event in place of its change   *)
(*            event.                                                       *)
(* SpecHttp   handleRequest as a function of the session configuration,    *)
(*            the file system and the request url.                         *)
(* SpecWatch  the watcher's ignore pattern applied to modified paths.      *)
(* SpecDetect ProjectDetector.checkProjectTypeInDirectory on one           *)
(*            directory.                                                   *)
(* SpecCmd    StartDevCommand.execute(), one process per invocation.       *)
(* SpecDeps   execute() with the dependency check and installation as      *)
(*            steps of their own.                                          *)
(* SpecSess   the registered commands: start with a uri, stop, restart     *)
(*            and the menu's "open browser", over execute().               *)
(* SpecWalk   ProjectDetector.detectProjectType walking up from a          *)
(*            directory.                                                   *)
(* SpecBody   the body handleRequest writes for a file that was read.      *)
(*                                                                         *)
(* Library behaviour the code relies on (Node net/http, ws, chokidar):     *)
(*  - server.listen(port, cb) binds synchronously; cb is registered as a   *)
(*    once('listening') listener and is never called with an error; a bind *)
(*    failure is emitted as an 'error' event on the next tick, and the     *)
(*    code registers no 'error' listener on the server;                    *)
(*  - 'listening' is not emitted for a server closed before the tick;      *)
(*  - server.address() is null unless the server holds a bound handle;     *)
(*  - wss.close() terminates the open clients in ws <= 7 and leaves them   *)
(*    open in ws >= 8; the repository does not pin the version;            *)
(*  - the extension host survives an uncaught exception (it is logged).    *)
(***************************************************************************)
EXTENDS Integers, Sequences, FiniteSets, TLC

\* ---------------------------------------------------------------- bounds
MaxStarts == 2
MaxConns == 2
MaxEvents == 1
MaxUrlLen == 3
MaxExecs == 2

\* ------------------------------------------------------------- constants
FixedPort == 1
DefaultEntry == <<"index", ".html">>

Calls == 1..MaxStarts
Execs == 1..MaxExecs
Conns == 1..MaxConns
\* the ephemeral range the OS assigns from when asked for port 0
EphPorts == {FixedPort + 1, FixedPort + 2}

VARIABLES
    port,        \* this.port (constructor argument; 0 = any free port)
    isRunning,   \* this.isRunning
    server,      \* this.server  (0 = null, else the instance it points to)
    wss,         \* this.wss
    watcher,     \* this.watcher
    clients,     \* this.clients
    srvState,    \* http.Server k: "none" | "bound" | "listening" | "binderr" | "closed"
    srvPort,     \* port http.Server k is bound to (0 = none)
    wssState,    \* WebSocket.Server k: "none" | "open" | "closed"
    watState,    \* chokidar watcher k: "none" | "watching" | "failed" | "closed"
    connState,   \* readyState of connection c: "none" | "OPEN" | "CLOSING" | "CLOSED"
    connOwner,   \* the instance whose WebSocket.Server accepted c
    sent,        \* number of 'reload' messages sent to c
    promise,     \* promise returned by the k-th start(): "none" | "pending" | "resolved" | "rejected"
    promiseVal,  \* value the k-th start() resolved with
    tickQueue,   \* process.nextTick queue of listen() notifications
    extBusy,     \* ports held by other processes
    wsTerminates,\* TRUE: ws <= 7 (close() terminates clients), FALSE: ws >= 8
    uncaught,    \* an exception escaped a callback
    nStarts,     \* number of start() calls made
    nEvents,     \* number of watcher change events delivered
    sessionPort, \* port the last start() resolved with, 0 after stop()
    lastOp,      \* the last step: "stop" (a stop() call), "tick" (a callback of
                 \* the tick queue) or "other"
    rootPath,    \* this.rootPath, a sequence of segments
    entryFile,   \* this.entryFile, one segment
    files,       \* regular files that exist
    unreadable,  \* files among them that fs.readFile fails on
    resp,        \* response to the last request
    changed,     \* path of the file the last modification touched (<<>> = none)
    notified,    \* what the watcher made of it: "none" | "pending" | "reload" | "ignored"
    dirFiles,    \* names that exist in the directory being examined
    pkgOk,       \* its package.json parses
    pkgDeps,     \* dependencies and devDependencies of its package.json
    composerOk,  \* its composer.json parses
    composerReq, \* the require section of its composer.json
    detected,    \* "pending", or the type checkProjectTypeInDirectory found ("none" = null)
    cmdIsRunning,    \* StartDevCommand.isRunning
    currentTerminal, \* StartDevCommand.currentTerminal (0 = null, else the execute() that made it)
    currentPort,     \* StartDevCommand.currentPort (0 = null)
    realTimeServer,  \* StartDevCommand.realTimeServer (0 = null, else the execute() that made it)
    status,          \* last updateStatus: its status, the port shown, the execute() that sent it
    pc,          \* where the e-th execute() is: "none" | "skipped" | "detect" | "term" |
                 \* "port" | "rts" | "done" | "failed"
    mode,        \* what the e-th execute() was invoked on: "html" | "terminal"
    detPort,     \* port waitForPort found for the e-th execute() (0 = null)
    rts,         \* RealTimeServer of the e-th execute(): "none" | "bound" | "listening" |
                 \* "binderr" | "dead" | "threw"
    rtsPort,     \* port that server is bound to
    terms,       \* terminals created and not disposed
    dev,         \* port the dev server launched in terminal e listens on (0 = not yet)
    opened,      \* ports the e-th execute() passed to the browser opener
    cBusy,       \* ports held by unrelated processes
    autoOpen,    \* the autoOpenBrowser setting
    content,     \* text of a file handed to the responder, a sequence of tokens
    contentHtml, \* TRUE when its extension is .html
    body,        \* the 200 response body made from it (<<"-">> = not yet)
    needsInstall, \* what checkDependencies told execute() e: "unknown" | "yes" | "no"
    installed,   \* what installDependencies told it: "none" | "ok" | "failed"
    autoInstall, \* the autoInstall setting
    chain,       \* what checkProjectTypeInDirectory finds in the start
                 \* directory (chain[1]) and in each ancestor up to the root
    currentPath, \* detectProjectType: index in chain of currentPath
    depth,       \* detectProjectType: the loop counter
    examined,    \* the directories checkProjectTypeInDirectory was called on
    walkResult,  \* what detectProjectType returned ("pending" = not yet)
    sinceStop,   \* a stop() has returned and execute() was not called since
    restartPending, \* restart() is between its stop() and its execute():
                 \* the execute() whose session it stopped (0 = not known,
                 \* -1 = no restart() is waiting)
    prev,        \* for an execute() called by restart(): the execute() whose
                 \* session that restart() had stopped (0 = none)
    menuOpened   \* the port the menu's "open browser" passed last (0 = none)

lifeVars == <<port, isRunning, server, wss, watcher, clients, srvState, srvPort,
              wssState, watState, connState, connOwner, sent, promise,
              promiseVal, tickQueue, extBusy, wsTerminates, uncaught, nStarts,
              nEvents, sessionPort>>
httpVars == <<rootPath, entryFile, files, unreadable, resp>>
watchVars == <<changed, notified>>
detectVars == <<dirFiles, pkgOk, pkgDeps, composerOk, composerReq, detected>>
cmdVars == <<cmdIsRunning, currentTerminal, currentPort, realTimeServer, status,
             pc, mode, detPort, rts, rtsPort, terms, dev, opened, cBusy,
             autoOpen>>
bodyVars == <<content, contentHtml, body>>
depVars == <<needsInstall, installed, autoInstall>>
walkVars == <<chain, currentPath, depth, examined, walkResult>>
sessVars == <<sinceStop, restartPending, prev, menuOpened>>
tailVars == <<bodyVars, depVars, walkVars, sessVars>>
auxVars == <<watchVars, detectVars, cmdVars, tailVars>>
vars == <<lifeVars, httpVars, lastOp, auxVars>>

NoResp == [url |-> <<>>, status |-> 0, served |-> <<>>, injected |-> FALSE,
           ctype |-> ""]

\* ------------------------------------------------------------ the runtime
\* a port some listening socket already holds
PortInUse(p) ==
    \/ p \in extBusy
    \/ \E j \in Calls : srvState[j] \in {"bound", "listening"} /\ srvPort[j] = p

\* a connection attempt to port p reaches a listener created by this object
Accepting(p) ==
    \E j \in Calls : srvState[j] \in {"bound", "listening"} /\ srvPort[j] = p

\* outcomes of binding for listen(q): a port, or 0 for EADDRINUSE
BindChoices(q) ==
    IF q = 0
    THEN IF \A p \in EphPorts : PortInUse(p)
         THEN {0} ELSE {p \in EphPorts : ~PortInUse(p)}
    ELSE IF PortInUse(q) THEN {0} ELSE {q}

\* server.address(): null (0) unless the server holds a bound handle
Address(s) ==
    IF s # 0 /\ srvState[s] \in {"bound", "listening"} THEN srvPort[s] ELSE 0

\* server.close(): stops listening; no effect on a server that never bound
SrvAfterClose_keep(st) == st
SrvAfterClose(st) == IF st \in {"bound", "listening"} THEN "closed" ELSE st

\* wss.close() on instance k: ws <= 7 terminates its open clients
ConnAfterWssClose(k) ==
    [c \in Conns |->
        IF wsTerminates /\ connOwner[c] = k /\ connState[c] = "OPEN"
        THEN "CLOSING" ELSE connState[c]]

\* ------------------------------------------------------------- start()
\* line 33: the only guard of start()
AlreadyRunning_never == FALSE
AlreadyRunning == isRunning

\* line 59: this.server.listen(this.port, cb) for the instance k just created
Listen(k) ==
    \E p \in BindChoices(port) :
        IF p = 0
        THEN /\ srvState' = [srvState EXCEPT ![k] = "binderr"]
             /\ srvPort' = srvPort
             /\ tickQueue' = Append(tickQueue, <<"error", k>>)
        ELSE /\ srvState' = [srvState EXCEPT ![k] = "bound"]
             /\ srvPort' = [srvPort EXCEPT ![k] = p]
             /\ tickQueue' = Append(tickQueue, <<"listening", k>>)

Start ==
    /\ nStarts < MaxStarts
    /\ LET k == nStarts + 1 IN
        /\ nStarts' = k
        /\ IF AlreadyRunning
           THEN /\ promise' = [promise EXCEPT ![k] = "rejected"]
                /\ UNCHANGED <<server, wss, watcher, srvState, srvPort,
                               wssState, watState, tickQueue>>
           ELSE /\ server' = k
                /\ wss' = k
                /\ watcher' = k
                /\ wssState' = [wssState EXCEPT ![k] = "open"]
                /\ watState' = [watState EXCEPT ![k] = "watching"]
                /\ promise' = [promise EXCEPT ![k] = "pending"]
                /\ Listen(k)
    /\ lastOp' = "other"
    /\ UNCHANGED <<port, isRunning, clients, connState, connOwner, sent,
                   promiseVal, extBusy, wsTerminates, uncaught, nEvents,
                   sessionPort>>
    /\ UNCHANGED httpVars
    /\ UNCHANGED auxVars

\* line 64: the port start() resolves with
ResolvedPort == Address(server)

\* lines 59-68: the 'listening' callback of instance k
ListeningCb ==
    /\ tickQueue # <<>>
    /\ Head(tickQueue)[1] = "listening"
    /\ LET k == Head(tickQueue)[2] IN
        /\ srvState[k] = "bound"
        /\ srvState' = [srvState EXCEPT ![k] = "listening"]
        /\ isRunning' = TRUE
        /\ IF Address(server) = 0
           THEN \* (null).port / null.address(): TypeError inside the callback
                /\ uncaught' = TRUE
                /\ UNCHANGED <<promise, promiseVal, sessionPort>>
           ELSE /\ promise' = [promise EXCEPT ![k] = "resolved"]
                /\ promiseVal' = [promiseVal EXCEPT ![k] = ResolvedPort]
                /\ sessionPort' = ResolvedPort
                /\ UNCHANGED uncaught
    /\ tickQueue' = Tail(tickQueue)
    /\ lastOp' = "tick"
    /\ UNCHANGED <<port, server, wss, watcher, clients, srvPort, wssState,
                   watState, connState, connOwner, sent, extBusy,
                   wsTerminates, nStarts, nEvents>>
    /\ UNCHANGED httpVars
    /\ UNCHANGED auxVars

\* the server was closed before its 'listening' tick: nothing is emitted
ListeningSkipped ==
    /\ tickQueue # <<>>
    /\ Head(tickQueue)[1] = "listening"
    /\ srvState[Head(tickQueue)[2]] # "bound"
    /\ tickQueue' = Tail(tickQueue)
    /\ lastOp' = "tick"
    /\ UNCHANGED <<port, isRunning, server, wss, watcher, clients, srvState,
                   srvPort, wssState, watState, connState, connOwner, sent,
                   promise, promiseVal, extBusy, wsTerminates, uncaught,
                   nStarts, nEvents, sessionPort>>
    /\ UNCHANGED httpVars
    /\ UNCHANGED auxVars

\* the bind failure is emitted as 'error'; no listener, so it is uncaught
\* and the callback of line 59 is not called
BindErrorEvent ==
    /\ tickQueue # <<>>
    /\ Head(tickQueue)[1] = "error"
    /\ tickQueue' = Tail(tickQueue)
    /\ uncaught' = TRUE
    /\ lastOp' = "tick"
    /\ UNCHANGED <<port, isRunning, server, wss, watcher, clients, srvState,
                   srvPort, wssState, watState, connState, connOwner, sent,
                   promise, promiseVal, extBusy, wsTerminates, nStarts,
                   nEvents, sessionPort>>
    /\ UNCHANGED httpVars
    /\ UNCHANGED auxVars

\* -------------------------------------------------------------- stop()
\* lines 196-198
StopNoop_never == FALSE
StopNoop == ~isRunning

Stop ==
    /\ IF StopNoop
       THEN UNCHANGED <<isRunning, server, wss, watcher, clients, srvState,
                        wssState, watState, connState, sessionPort>>
       ELSE /\ watState' = IF watcher # 0
                           THEN [watState EXCEPT ![watcher] = "closed"]
                           ELSE watState
            /\ watcher' = 0
            /\ wssState' = IF wss # 0
                           THEN [wssState EXCEPT ![wss] = "closed"]
                           ELSE wssState
            /\ connState' = IF wss # 0 THEN ConnAfterWssClose(wss) ELSE connState
            /\ wss' = 0
            /\ srvState' = IF server # 0
                           THEN [srvState EXCEPT ![server] = SrvAfterClose(srvState[server])]
                           ELSE srvState
            /\ server' = 0
            /\ clients' = {}
            /\ isRunning' = FALSE
            /\ sessionPort' = 0
    /\ lastOp' = "stop"
    /\ UNCHANGED <<port, srvPort, connOwner, sent, promise, promiseVal,
                   tickQueue, extBusy, wsTerminates, uncaught, nStarts, nEvents>>
    /\ UNCHANGED httpVars
    /\ UNCHANGED auxVars


\* ------------------------------------------------ WebSocket connections
\* the events below are I/O events: they run when the tick queue is empty
Idle == tickQueue = <<>>

NextConn == CHOOSE c \in Conns : connState[c] = "none" /\
                \A d \in Conns : connState[d] = "none" => c <= d

\* lines 45-52: 'connection' on the WebSocket.Server of instance k
Connect ==
    /\ Idle
    /\ \E c \in Conns : connState[c] = "none"
    /\ \E k \in Calls :
        /\ srvState[k] = "listening"
        /\ wssState[k] = "open"
        /\ connState' = [connState EXCEPT ![NextConn] = "OPEN"]
        /\ connOwner' = [connOwner EXCEPT ![NextConn] = k]
        /\ clients' = clients \cup {NextConn}
    /\ lastOp' = "other"
    /\ UNCHANGED <<port, isRunning, server, wss, watcher, srvState, srvPort,
                   wssState, watState, sent, promise, promiseVal, tickQueue,
                   extBusy, wsTerminates, uncaught, nStarts, nEvents,
                   sessionPort>>
    /\ UNCHANGED httpVars
    /\ UNCHANGED auxVars

\* the closing handshake begins: readyState is CLOSING until 'close'
ConnBeginClose ==
    /\ Idle
    /\ \E c \in Conns :
        /\ connState[c] = "OPEN"
        /\ connState' = [connState EXCEPT ![c] = "CLOSING"]
    /\ lastOp' = "other"
    /\ UNCHANGED <<port, isRunning, server, wss, watcher, clients, srvState,
                   srvPort, wssState, watState, connOwner, sent, promise,
                   promiseVal, tickQueue, extBusy, wsTerminates, uncaught,
                   nStarts, nEvents, sessionPort>>
    /\ UNCHANGED httpVars
    /\ UNCHANGED auxVars

\* line 47: ws.on('close')
ConnCloseEvent ==
    /\ Idle
    /\ \E c \in Conns :
        /\ connState[c] = "CLOSING"
        /\ connState' = [connState EXCEPT ![c] = "CLOSED"]
        /\ clients' = clients \ {c}
    /\ lastOp' = "other"
    /\ UNCHANGED <<port, isRunning, server, wss, watcher, srvState, srvPort,
                   wssState, watState, connOwner, sent, promise, promiseVal,
                   tickQueue, extBusy, wsTerminates, uncaught, nStarts,
                   nEvents, sessionPort>>
    /\ UNCHANGED httpVars
    /\ UNCHANGED auxVars

\* lines 48-51: ws.on('error'); ws sets readyState CLOSING before emitting
ConnErrorEvent ==
    /\ Idle
    /\ \E c \in Conns :
        /\ connState[c] = "OPEN"
        /\ connState' = [connState EXCEPT ![c] = "CLOSING"]
        /\ clients' = clients \ {c}
    /\ lastOp' = "other"
    /\ UNCHANGED <<port, isRunning, server, wss, watcher, srvState, srvPort,
                   wssState, watState, connOwner, sent, promise, promiseVal,
                   tickQueue, extBusy, wsTerminates, uncaught, nStarts,
                   nEvents, sessionPort>>
    /\ UNCHANGED httpVars
    /\ UNCHANGED auxVars

\* ------------------------------------------------------------ broadcast
\* lines 185-189: the connections broadcastReload sends 'reload' to
BroadcastTargets_all == clients
BroadcastTargets_skipFirst == {c \in clients : connState[c] = "OPEN" /\ c # 1}
BroadcastTargets == {c \in clients : connState[c] = "OPEN"}

\* lines 171-174: 'change' from the watcher of instance k
WatcherChange ==
    /\ Idle
    /\ nEvents < MaxEvents
    /\ \E k \in Calls : watState[k] = "watching"
    /\ sent' = [c \in Conns |->
                    IF c \in BroadcastTargets THEN sent[c] + 1 ELSE sent[c]]
    /\ nEvents' = nEvents + 1
    /\ lastOp' = "other"
    /\ UNCHANGED <<port, isRunning, server, wss, watcher, clients, srvState,
                   srvPort, wssState, watState, connState, connOwner, promise,
                   promiseVal, tickQueue, extBusy, wsTerminates, uncaught,
                   nStarts, sessionPort>>
    /\ UNCHANGED httpVars
    /\ UNCHANGED auxVars

\* lines 176-178: the 'error' listener is registered and only logs
WatcherErrorHandled_none == FALSE
WatcherErrorHandled == TRUE

\* the watch mechanism of this.watcher reports an error (once per watcher);
\* what chokidar does with later changes of a failed watcher is left out
WatcherError ==
    /\ Idle
    /\ watcher # 0
    /\ watState[watcher] = "watching"
    /\ watState' = [watState EXCEPT ![watcher] = "failed"]
    /\ uncaught' = (uncaught \/ ~WatcherErrorHandled)
    /\ lastOp' = "other"
    /\ UNCHANGED <<port, isRunning, server, wss, watcher, clients, srvState,
                   srvPort, wssState, connState, connOwner, sent, promise,
                   promiseVal, tickQueue, extBusy, wsTerminates, nStarts,
                   nEvents, sessionPort>>
    /\ UNCHANGED httpVars
    /\ UNCHANGED auxVars

\* ---------------------------------------------------------- environment
\* another process takes or releases the configured port
ExtTake ==
    /\ Idle
    /\ port = FixedPort
    /\ ~PortInUse(FixedPort)
    /\ extBusy' = extBusy \cup {FixedPort}
    /\ lastOp' = "other"
    /\ UNCHANGED <<port, isRunning, server, wss, watcher, clients, srvState,
                   srvPort, wssState, watState, connState, connOwner, sent,
                   promise, promiseVal, tickQueue, wsTerminates, uncaught,
                   nStarts, nEvents, sessionPort>>
    /\ UNCHANGED httpVars
    /\ UNCHANGED auxVars

ExtRelease ==
    /\ Idle
    /\ FixedPort \in extBusy
    /\ extBusy' = extBusy \ {FixedPort}
    /\ lastOp' = "other"
    /\ UNCHANGED <<port, isRunning, server, wss, watcher, clients, srvState,
                   srvPort, wssState, watState, connState, connOwner, sent,
                   promise, promiseVal, tickQueue, wsTerminates, uncaught,
                   nStarts, nEvents, sessionPort>>
    /\ UNCHANGED httpVars
    /\ UNCHANGED auxVars

\* ------------------------------------------------------- specification
HttpIdle ==
    /\ rootPath = <<>>
    /\ entryFile = DefaultEntry
    /\ files = {}
    /\ unreadable = {}
    /\ resp = NoResp

WatchIdle ==
    /\ changed = <<>>
    /\ notified = "none"

DetectIdle ==
    /\ dirFiles = {}
    /\ pkgOk = TRUE
    /\ pkgDeps = {}
    /\ composerOk = TRUE
    /\ composerReq = {}
    /\ detected = "pending"

\* startDev.ts lines 18-22: the fields of a new StartDevCommand
CmdFields ==
    /\ cmdIsRunning = FALSE
    /\ currentTerminal = 0
    /\ currentPort = 0
    /\ realTimeServer = 0
    /\ status = [val |-> "idle", port |-> 0, by |-> 0]
    /\ pc = [e \in Execs |-> "none"]
    /\ mode = [e \in Execs |-> "none"]
    /\ detPort = [e \in Execs |-> 0]
    /\ rts = [e \in Execs |-> "none"]
    /\ rtsPort = [e \in Execs |-> 0]
    /\ terms = {}
    /\ dev = [e \in Execs |-> 0]
    /\ opened = [e \in Execs |-> <<>>]

CmdIdle ==
    /\ CmdFields
    /\ cBusy = {}
    /\ autoOpen = TRUE

NoBody == <<"-">>

BodyIdle ==
    /\ content = <<>>
    /\ contentHtml = FALSE
    /\ body = NoBody

DepsFields ==
    /\ needsInstall = [e \in Execs |-> "unknown"]
    /\ installed = [e \in Execs |-> "none"]

DepsIdle ==
    /\ DepsFields
    /\ autoInstall = TRUE

WalkFields ==
    /\ currentPath = 1
    /\ depth = 0
    /\ examined = <<>>
    /\ walkResult = "pending"

WalkIdle ==
    /\ chain = <<"null">>
    /\ WalkFields

SessIdle ==
    /\ sinceStop = FALSE
    /\ restartPending = -1
    /\ prev = [e \in Execs |-> 0]
    /\ menuOpened = 0

TailIdle ==
    /\ BodyIdle
    /\ DepsIdle
    /\ WalkIdle
    /\ SessIdle

AuxIdle ==
    /\ WatchIdle
    /\ DetectIdle
    /\ CmdIdle
    /\ TailIdle

\* lines 14-27: the fields after construction
Init ==
    /\ port \in {0, FixedPort}
    /\ isRunning = FALSE
    /\ server = 0
    /\ wss = 0
    /\ watcher = 0
    /\ clients = {}
    /\ srvState = [k \in Calls |-> "none"]
    /\ srvPort = [k \in Calls |-> 0]
    /\ wssState = [k \in Calls |-> "none"]
    /\ watState = [k \in Calls |-> "none"]
    /\ connState = [c \in Conns |-> "none"]
    /\ connOwner = [c \in Conns |-> 0]
    /\ sent = [c \in Conns |-> 0]
    /\ promise = [k \in Calls |-> "none"]
    /\ promiseVal = [k \in Calls |-> 0]
    /\ tickQueue = <<>>
    /\ extBusy \in (IF port = FixedPort THEN {{}, {FixedPort}} ELSE {{}})
    /\ wsTerminates \in BOOLEAN
    /\ uncaught = FALSE
    /\ nStarts = 0
    /\ nEvents = 0
    /\ sessionPort = 0
    /\ lastOp = "other"
    /\ HttpIdle
    /\ AuxIdle

Next ==
    \/ Start
    \/ ListeningCb
    \/ ListeningSkipped
    \/ BindErrorEvent
    \/ Stop
    \/ Connect
    \/ ConnBeginClose
    \/ ConnCloseEvent
    \/ ConnErrorEvent
    \/ WatcherChange
    \/ ExtTake
    \/ ExtRelease

Spec == Init /\ [][Next]_vars

\* the same object with a watch mechanism that fails instead of reporting
\* changes (the broadcast of a change is the subject of Spec)
NextFault ==
    \/ Start
    \/ ListeningCb
    \/ ListeningSkipped
    \/ BindErrorEvent
    \/ Stop
    \/ Connect
    \/ ConnBeginClose
    \/ ConnCloseEvent
    \/ ConnErrorEvent
    \/ WatcherError
    \/ ExtTake
    \/ ExtRelease

SpecFault == Init /\ [][NextFault]_vars

\* ------------------------------------------- the lifecycle under Node's
\* scheduling.  process.nextTick callbacks run back to back: once the first
\* queued notification has run, no start() or stop() call (made from a task
\* or a promise continuation) can run until the queue is empty.  Spec allows
\* such calls anywhere and so contains every behaviour of SpecLife.
Draining == lastOp = "tick" /\ tickQueue # <<>>

StartCall == ~Draining /\ Start

StopCall == ~Draining /\ Stop

\* ListeningSkipped is left out: a server is closed only by a stop() that
\* finds isRunning set, which here happens only with an empty tick queue
NextLife ==
    \/ StartCall
    \/ StopCall
    \/ ListeningCb
    \/ BindErrorEvent
    \/ ExtTake
    \/ ExtRelease

SpecLife == Init /\ [][NextLife]_vars

\* ======================================================== handleRequest
\* A path is a sequence of segments and a segment a sequence of tokens, so
\* that the string the code compares (String.startsWith) can be spelled out.
SegW == <<"w">>
SegW2 == <<"w", "2">>
SegIndex == <<"index", ".html">>
SegApp == <<"app", ".html">>
SegHtm == <<"page", ".htm">>
SegCss == <<"style", ".css">>
SegNope == <<"nope">>
SegUp == <<"..">>

Roots == {<<SegW>>, <<SegW2>>}
\* startDev.ts line 57, part_002 line 343: the entry is a .html or .htm file
EntryNames == {SegIndex, SegApp, SegHtm}
CandidateFiles == {<<SegW, SegIndex>>, <<SegW, SegApp>>, <<SegW, SegCss>>,
                   <<SegW, SegHtm>>,
                   <<SegW2, SegIndex>>, <<SegW2, SegApp>>, <<SegNope>>}
\* the file whose permissions may forbid reading (a file of the root /w,
\* tried in the sessions that serve /w with the default entry)
UnreadableCandidates == {<<SegW, SegCss>>}
UrlSegs == {SegUp, SegW, SegW2, SegIndex, SegApp, SegCss, SegNope}
\* req.url: "/" is the empty sequence, "/a/b" is <<a, b>>
Urls == UNION {[1..n -> UrlSegs] : n \in 0..MaxUrlLen}

Front(q) == SubSeq(q, 1, Len(q) - 1)

\* path.normalize on segments: ".." removes the segment before it and is
\* dropped at the file-system root
RECURSIVE NormFrom(_, _)
NormFrom(acc, segs) ==
    IF segs = <<>> THEN acc
    ELSE IF Head(segs) = SegUp
         THEN NormFrom(IF acc = <<>> THEN acc ELSE Front(acc), Tail(segs))
         ELSE NormFrom(Append(acc, Head(segs)), Tail(segs))

\* path.join(a, b)
Join(a, b) == NormFrom(<<>>, a \o b)

\* the string of an absolute path: "/" seg "/" seg ...; "/" for the root
RECURSIVE PathStr(_)
PathStr(p) ==
    IF p = <<>> THEN <<"/">>
    ELSE IF Len(p) = 1 THEN <<"/">> \o p[1]
    ELSE PathStr(Front(p)) \o <<"/">> \o p[Len(p)]

\* String.prototype.startsWith
StartsWith(str, pre) ==
    Len(pre) <= Len(str) /\ SubSeq(str, 1, Len(pre)) = pre

\* line 85: the containment test of the code
InRoot(fp) == StartsWith(PathStr(fp), PathStr(rootPath))

\* fp is the root directory or lies below it
Contained(fp) ==
    Len(rootPath) <= Len(fp) /\ SubSeq(fp, 1, Len(rootPath)) = rootPath

\* directories: the root, its ancestors, and every ancestor of a file
IsDir(p) ==
    \/ Len(p) <= Len(rootPath) /\ SubSeq(rootPath, 1, Len(p)) = p
    \/ \E f \in files : Len(p) < Len(f) /\ SubSeq(f, 1, Len(p)) = p

\* fs.existsSync
Exists(p) == p \in files \/ IsDir(p)

\* path.extname(p).toLowerCase()
ExtName(p) ==
    IF p = <<>> THEN ""
    ELSE LET seg == p[Len(p)] IN
         IF Len(seg) > 1 /\ seg[Len(seg)] \in {".html", ".htm", ".css"}
         THEN seg[Len(seg)] ELSE ""

\* line 82
FilePath(url) == Join(rootPath, IF url = <<>> THEN <<entryFile>> ELSE url)

\* line 93: the file the code falls back to
FallbackPath == Join(rootPath, <<DefaultEntry>>)

\* mime.getType(p), by extension; its misses are replaced in lines 113, 121
MimeType(p) ==
    IF ExtName(p) \in {".html", ".htm"} THEN "text/html"
    ELSE IF ExtName(p) = ".css" THEN "text/css"
    ELSE ""

Plain(url, code) ==
    [url |-> url, status |-> code, served |-> <<>>, injected |-> FALSE,
     ctype |-> "text/plain"]

\* line 104: fs.readFile succeeds on a regular file it is allowed to read;
\* a directory (EISDIR) and a file without permission give err
Readable_any(p) == TRUE
Readable(p) == p \in files /\ p \notin unreadable

\* lines 104-125: readFile and the response
Serve(url, p) ==
    IF ~Readable(p)
    THEN Plain(url, 500)
    ELSE IF ExtName(p) = ".html"
         THEN [url |-> url, status |-> 200, served |-> p, injected |-> TRUE,
               ctype |-> IF MimeType(p) # "" THEN MimeType(p) ELSE "text/html"]
         ELSE [url |-> url, status |-> 200, served |-> p, injected |-> FALSE,
               ctype |-> IF MimeType(p) # "" THEN MimeType(p)
                         ELSE "application/octet-stream"]

\* lines 80-132
HandleRequest(url) ==
    LET fp == FilePath(url) IN
    IF ~InRoot(fp)
    THEN Plain(url, 403)
    ELSE IF ~Exists(fp)
         THEN IF Exists(FallbackPath)
              THEN Serve(url, FallbackPath)
              ELSE Plain(url, 404)
         ELSE Serve(url, fp)

\* a request arrives and is answered; resp holds the answer until it is sent
Request ==
    /\ resp = NoResp
    /\ \E url \in Urls : resp' = HandleRequest(url)
    /\ UNCHANGED <<rootPath, entryFile, files, unreadable>>
    /\ UNCHANGED lifeVars
    /\ UNCHANGED lastOp
    /\ UNCHANGED auxVars

\* res.end(): the response is written out; the handler keeps no state
ResponseSent ==
    /\ resp # NoResp
    /\ resp' = NoResp
    /\ UNCHANGED <<rootPath, entryFile, files, unreadable>>
    /\ UNCHANGED lifeVars
    /\ UNCHANGED lastOp
    /\ UNCHANGED auxVars

InitHttp ==
    /\ rootPath \in Roots
    /\ entryFile \in EntryNames
    /\ files \in SUBSET CandidateFiles
    /\ unreadable \in (IF rootPath = <<SegW>> /\ entryFile = DefaultEntry
                        THEN SUBSET (files \cap UnreadableCandidates)
                        ELSE {{}})
    /\ resp = NoResp
    /\ port = 0
    /\ isRunning = FALSE
    /\ server = 0
    /\ wss = 0
    /\ watcher = 0
    /\ clients = {}
    /\ srvState = [k \in Calls |-> "none"]
    /\ srvPort = [k \in Calls |-> 0]
    /\ wssState = [k \in Calls |-> "none"]
    /\ watState = [k \in Calls |-> "none"]
    /\ connState = [c \in Conns |-> "none"]
    /\ connOwner = [c \in Conns |-> 0]
    /\ sent = [c \in Conns |-> 0]
    /\ promise = [k \in Calls |-> "none"]
    /\ promiseVal = [k \in Calls |-> 0]
    /\ tickQueue = <<>>
    /\ extBusy = {}
    /\ wsTerminates = FALSE
    /\ uncaught = FALSE
    /\ nStarts = 0
    /\ nEvents = 0
    /\ sessionPort = 0
    /\ lastOp = "other"
    /\ AuxIdle

NextHttp ==
    \/ Request
    \/ ResponseSent

SpecHttp == InitHttp /\ [][NextHttp]_vars

\* ================================================ the response body
MaxBodyLen == 3

\* the text of a file, cut into the pieces that matter to the injection
TagClose == "</body>"
TagCloseUpper == "</BODY>"
Script == "<script>"
BodyTokens == {"<p>", TagClose, TagCloseUpper}
Contents == UNION {[1..n -> BodyTokens] : n \in 0..MaxBodyLen}

\* String.prototype.replace(pattern, replacement) with a string pattern:
\* the first occurrence only, compared case-sensitively
RECURSIVE ReplaceFirst(_, _, _)
ReplaceFirst(str, pat, new) ==
    IF str = <<>> THEN <<>>
    ELSE IF Head(str) = pat THEN new \o Tail(str)
    ELSE <<Head(str)>> \o ReplaceFirst(Tail(str), pat, new)

\* part_004 lines 112-123: the body of the 200 response
ResponseBody(text, html) ==
    IF html THEN ReplaceFirst(text, TagClose, <<Script, TagClose>>)
    ELSE text

\* lines 104-125: the file has been read and the response is written
WriteBody ==
    /\ body = NoBody
    /\ body' = ResponseBody(content, contentHtml)
    /\ UNCHANGED <<content, contentHtml>>
    /\ UNCHANGED <<lifeVars, httpVars, lastOp, watchVars, detectVars, cmdVars,
                   depVars, walkVars, sessVars>>

\* the next request for the same file
BodySent ==
    /\ body # NoBody
    /\ body' = NoBody
    /\ UNCHANGED <<content, contentHtml>>
    /\ UNCHANGED <<lifeVars, httpVars, lastOp, watchVars, detectVars, cmdVars,
                   depVars, walkVars, sessVars>>

NextBody ==
    \/ WriteBody
    \/ BodySent

\* ===================================================== setupFileWatcher
\* the fields of an object no start() was called on
LifeIdle ==
    /\ port = 0
    /\ isRunning = FALSE
    /\ server = 0
    /\ wss = 0
    /\ watcher = 0
    /\ clients = {}
    /\ srvState = [k \in Calls |-> "none"]
    /\ srvPort = [k \in Calls |-> 0]
    /\ wssState = [k \in Calls |-> "none"]
    /\ watState = [k \in Calls |-> "none"]
    /\ connState = [c \in Conns |-> "none"]
    /\ connOwner = [c \in Conns |-> 0]
    /\ sent = [c \in Conns |-> 0]
    /\ promise = [k \in Calls |-> "none"]
    /\ promiseVal = [k \in Calls |-> 0]
    /\ tickQueue = <<>>
    /\ extBusy = {}
    /\ wsTerminates = FALSE
    /\ uncaught = FALSE
    /\ nStarts = 0
    /\ nEvents = 0
    /\ sessionPort = 0
    /\ lastOp = "other"

MaxWatchDepth == 2

SegSrc == <<"src">>
SegJs == <<"a", ".js">>
SegGit == <<".git">>
SegGithub == <<".git", "hub">>
SegGitignore == <<".git", "ignore">>
SegModules == <<"node_modules">>
SegDSStore == <<".DS_Store">>
SegSite == <<"site", ".git", "hub.io">>

WatchRoots == {<<SegW>>, <<SegSite>>}
WatchSegs == {SegSrc, SegJs, SegGit, SegGithub, SegGitignore, SegModules,
              SegDSStore}
\* paths of files below the root, relative to it
RelPaths == UNION {[1..n -> WatchSegs] : n \in 1..MaxWatchDepth}

\* the names the watcher is meant to leave out
IgnoredNames == {"node_modules", ".git", ".DS_Store"}

\* line 162: ignored: /node_modules|\.git|\.DS_Store/ -- chokidar tests the
\* unanchored expression against the whole path string
Ignored(str) == \E i \in 1..Len(str) : str[i] \in IgnoredNames

\* a file below the root is modified
FileModified ==
    /\ notified # "pending"
    /\ \E rel \in RelPaths : changed' = rootPath \o rel
    /\ notified' = "pending"
    /\ UNCHANGED lifeVars
    /\ UNCHANGED httpVars
    /\ UNCHANGED lastOp
    /\ UNCHANGED detectVars
    /\ UNCHANGED cmdVars
    /\ UNCHANGED tailVars

\* lines 171-174: chokidar drops an ignored path; for any other it emits
\* 'change', whose handler calls broadcastReload
WatcherDelivers ==
    /\ notified = "pending"
    /\ notified' = IF Ignored(PathStr(changed)) THEN "ignored" ELSE "reload"
    /\ UNCHANGED changed
    /\ UNCHANGED lifeVars
    /\ UNCHANGED httpVars
    /\ UNCHANGED lastOp
    /\ UNCHANGED detectVars
    /\ UNCHANGED cmdVars
    /\ UNCHANGED tailVars

InitWatch ==
    /\ LifeIdle
    /\ rootPath \in WatchRoots
    /\ entryFile = DefaultEntry
    /\ files = {}
    /\ unreadable = {}
    /\ resp = NoResp
    /\ WatchIdle
    /\ DetectIdle
    /\ CmdIdle
    /\ TailIdle

NextWatch ==
    \/ FileModified
    \/ WatcherDelivers

SpecWatch == InitWatch /\ [][NextWatch]_vars

InitBody ==
    /\ LifeIdle
    /\ HttpIdle
    /\ WatchIdle
    /\ DetectIdle
    /\ CmdIdle
    /\ content \in Contents
    /\ contentHtml \in BOOLEAN
    /\ body = NoBody
    /\ DepsIdle
    /\ WalkIdle
    /\ SessIdle

SpecBody == InitBody /\ [][NextBody]_vars

\* ======================================================= ProjectDetector
\* part_002 lines 22-89: the table of project types, in the order it is
\* searched; hasComposer tells whether composerJsonIndicators is defined
ProjectTypes ==
    << [type |-> "vite",
        configFiles |-> {"vite.config.js", "vite.config.ts", "vite.config.mjs"},
        packageJsonIndicators |-> {"vite"},
        hasComposer |-> FALSE, composerJsonIndicators |-> {}],
       [type |-> "cra",
        configFiles |-> {},
        packageJsonIndicators |-> {"react-scripts"},
        hasComposer |-> FALSE, composerJsonIndicators |-> {}],
       [type |-> "next",
        configFiles |-> {"next.config.js", "next.config.ts", "next.config.mjs"},
        packageJsonIndicators |-> {"next"},
        hasComposer |-> FALSE, composerJsonIndicators |-> {}],
       [type |-> "vue-cli",
        configFiles |-> {"vue.config.js"},
        packageJsonIndicators |-> {"@vue/cli-service"},
        hasComposer |-> FALSE, composerJsonIndicators |-> {}],
       [type |-> "laravel",
        configFiles |-> {"artisan"},
        packageJsonIndicators |-> {},
        hasComposer |-> TRUE, composerJsonIndicators |-> {"laravel/framework"}],
       [type |-> "symfony",
        configFiles |-> {"symfony.lock", "bin/console"},
        packageJsonIndicators |-> {},
        hasComposer |-> TRUE,
        composerJsonIndicators |-> {"symfony/framework-bundle"}],
       [type |-> "php",
        configFiles |-> {"index.php"},
        packageJsonIndicators |-> {},
        hasComposer |-> TRUE, composerJsonIndicators |-> {}] >>

PhpNames == {"index.php", "lib.php"}

\* lines 251-264: some name of the directory ends in .php
HasAnyPhpFile == dirFiles \cap PhpNames # {}

\* lines 177-246
CheckProjectTypeMatch(t) ==
    IF t.configFiles \cap dirFiles # {} THEN TRUE
    ELSE IF "package.json" \in dirFiles /\ ~pkgOk THEN FALSE
    ELSE IF "package.json" \in dirFiles
            /\ t.packageJsonIndicators \cap pkgDeps # {} THEN TRUE
    ELSE IF "composer.json" \in dirFiles /\ t.hasComposer /\ ~composerOk
         THEN FALSE
    ELSE IF "composer.json" \in dirFiles /\ t.hasComposer
            /\ t.composerJsonIndicators \cap composerReq # {} THEN TRUE
    ELSE t.type = "php" /\ HasAnyPhpFile

\* lines 138-175: the first type of the table that matches, or null
CheckProjectTypeInDirectory ==
    IF \E i \in 1..Len(ProjectTypes) : CheckProjectTypeMatch(ProjectTypes[i])
    THEN LET i == CHOOSE i \in 1..Len(ProjectTypes) :
                    /\ CheckProjectTypeMatch(ProjectTypes[i])
                    /\ \A j \in 1..(i - 1) :
                          ~CheckProjectTypeMatch(ProjectTypes[j])
         IN ProjectTypes[i].type
    ELSE "none"

\* the search of one directory
Detect ==
    /\ detected = "pending"
    /\ detected' = CheckProjectTypeInDirectory
    /\ UNCHANGED <<dirFiles, pkgOk, pkgDeps, composerOk, composerReq>>
    /\ UNCHANGED lifeVars
    /\ UNCHANGED httpVars
    /\ UNCHANGED lastOp
    /\ UNCHANGED watchVars
    /\ UNCHANGED cmdVars
    /\ UNCHANGED tailVars

\* the result is handed to the caller
DetectReturn ==
    /\ detected # "pending"
    /\ detected' = "pending"
    /\ UNCHANGED <<dirFiles, pkgOk, pkgDeps, composerOk, composerReq>>
    /\ UNCHANGED lifeVars
    /\ UNCHANGED httpVars
    /\ UNCHANGED lastOp
    /\ UNCHANGED watchVars
    /\ UNCHANGED cmdVars
    /\ UNCHANGED tailVars

DirNames == {"vite.config.js", "artisan", "symfony.lock", "bin/console",
             "index.php", "lib.php", "package.json", "composer.json"}
PkgNames == {"vite", "react-scripts"}
ComposerNames == {"laravel/framework", "symfony/framework-bundle"}

InitDetect ==
    /\ LifeIdle
    /\ HttpIdle
    /\ WatchIdle
    /\ dirFiles \in SUBSET DirNames
    /\ pkgOk \in (IF "package.json" \in dirFiles THEN BOOLEAN ELSE {TRUE})
    /\ pkgDeps \in (IF "package.json" \in dirFiles /\ pkgOk
                     THEN SUBSET PkgNames ELSE {{}})
    /\ composerOk \in (IF "composer.json" \in dirFiles THEN BOOLEAN ELSE {TRUE})
    /\ composerReq \in (IF "composer.json" \in dirFiles /\ composerOk
                         THEN SUBSET ComposerNames ELSE {{}})
    /\ detected = "pending"
    /\ CmdIdle
    /\ TailIdle

NextDetect ==
    \/ Detect
    \/ DetectReturn

SpecDetect == InitDetect /\ [][NextDetect]_vars

\* ---------------------------------------------- detectProjectType: the walk
MaxChain == 6

\* part_002 line 19
maxSearchDepth == 5

\* line 120: the loop test
WithinDepth_always(d) == TRUE
WithinDepth(d) == d < maxSearchDepth

\* what checkProjectTypeInDirectory can answer for a directory: null or
\* the type of the first entry of projectTypes that matches
DirAnswers == {"null", "vite", "php"}
Chains == UNION {[1..n -> DirAnswers] : n \in 1..MaxChain}

\* line 131: the start directory is called on, nothing returned yet
Walking == walkResult = "pending"

\* lines 124-133: one turn of the loop, from the loop test to the next
\* await; path.dirname of the root is the root itself
WalkStep ==
    /\ Walking
    /\ IF ~WithinDepth(depth)
       THEN /\ walkResult' = "null"
            /\ UNCHANGED <<currentPath, depth, examined>>
       ELSE /\ examined' = Append(examined, currentPath)
            /\ IF chain[currentPath] # "null"
               THEN /\ walkResult' = chain[currentPath]
                    /\ UNCHANGED <<currentPath, depth>>
               ELSE IF currentPath = Len(chain)
                    THEN /\ walkResult' = "null"
                         /\ UNCHANGED <<currentPath, depth>>
                    ELSE /\ currentPath' = currentPath + 1
                         /\ depth' = depth + 1
                         /\ UNCHANGED walkResult
    /\ UNCHANGED chain
    /\ UNCHANGED <<lifeVars, httpVars, lastOp, watchVars, detectVars, cmdVars,
                   bodyVars, depVars, sessVars>>

\* the caller has the answer; the next call starts at the same directory
WalkReturn ==
    /\ ~Walking
    /\ currentPath' = 1
    /\ depth' = 0
    /\ examined' = <<>>
    /\ walkResult' = "pending"
    /\ UNCHANGED chain
    /\ UNCHANGED <<lifeVars, httpVars, lastOp, watchVars, detectVars, cmdVars,
                   bodyVars, depVars, sessVars>>

InitWalk ==
    /\ LifeIdle
    /\ HttpIdle
    /\ WatchIdle
    /\ DetectIdle
    /\ CmdIdle
    /\ BodyIdle
    /\ DepsIdle
    /\ chain \in Chains
    /\ WalkFields
    /\ SessIdle

NextWalk ==
    \/ WalkStep
    \/ WalkReturn

SpecWalk == InitWalk /\ [][NextWalk]_vars

\* ======================================================= StartDevCommand
\* execute() is a process per invocation; each action runs from one await
\* to the next.  Ports: Pref is projectInfo.port, CommonPorts the list
\* findAvailablePort tries next, FreshPort a port nothing else ever holds.
Pref == 1
CommonPorts == <<2>>
FreshPort == 3
CmdPorts == {Pref, 2}
Modes == {"html", "terminal"}

otherVars == <<lifeVars, httpVars, lastOp, watchVars, detectVars, tailVars>>

\* a port some process is listening on
CmdInUse(p) ==
    \/ p \in cBusy
    \/ \E e \in Execs : dev[e] = p
    \/ \E e \in Execs : rts[e] \in {"bound", "listening"} /\ rtsPort[e] = p

\* portDetector.ts lines 63-100: detect-port answers with a FREE port
FindAvailablePort(preferred) ==
    IF preferred # 0 /\ ~CmdInUse(preferred) THEN preferred
    ELSE IF \E i \in 1..Len(CommonPorts) : ~CmdInUse(CommonPorts[i])
         THEN CommonPorts[CHOOSE i \in 1..Len(CommonPorts) :
                  /\ ~CmdInUse(CommonPorts[i])
                  /\ \A j \in 1..(i - 1) : CmdInUse(CommonPorts[j])]
         ELSE FreshPort

\* portDetector.ts lines 9-28: the terminal output is never read (lines
\* 30-41 resolve null), so the answer is findAvailablePort's; null (0) only
\* when detect-port itself fails
WaitForPort(preferred) == {FindAvailablePort(preferred), 0}

\* part_002 lines 350-372 and 139-150: projectInfo.port; the direct mode
\* of an HTML file has port 0
PreferredPort(m) == IF m = "direct" THEN 0 ELSE Pref

\* the url of a file opened directly carries no port
FileUrl == 0

\* part_001 lines 573-583: the port shown changes only when one is passed
UpdateStatus(v, p, e) ==
    status' = [val |-> v, port |-> IF p # 0 THEN p ELSE status.port, by |-> e]

\* startDev.ts lines 280-289
HandleError(e) ==
    /\ cmdIsRunning' = FALSE
    /\ UpdateStatus("error", 0, e)
    /\ pc' = [pc EXCEPT ![e] = "failed"]

\* lines 38-96: the guard, the target and updateStatus(Detecting)
ExecInvoke ==
    \E e \in Execs :
        /\ pc[e] = "none"
        /\ \A d \in Execs : d < e => pc[d] # "none"
        /\ IF cmdIsRunning
           THEN /\ pc' = [pc EXCEPT ![e] = "skipped"]
                /\ UNCHANGED <<mode, status>>
           ELSE /\ \E m \in Modes : mode' = [mode EXCEPT ![e] = m]
                /\ pc' = [pc EXCEPT ![e] = "detect"]
                /\ UpdateStatus("detecting", 0, e)
        /\ UNCHANGED <<cmdIsRunning, currentTerminal, currentPort,
                       realTimeServer, detPort, rts, rtsPort, terms, dev,
                       opened, cBusy, autoOpen>>
        /\ UNCHANGED otherVars

\* lines 97-146: detection, configuration and dependencies are done; either
\* one of them threw, or the terminal is created
ExecPrepared ==
    \E e \in Execs :
        /\ pc[e] = "detect"
        /\ \/ /\ HandleError(e)
              /\ UNCHANGED terms
           \/ /\ UpdateStatus("starting", 0, e)
              /\ terms' = terms \cup {e}
              /\ pc' = [pc EXCEPT ![e] = "term"]
              /\ UNCHANGED cmdIsRunning
        /\ UNCHANGED <<currentTerminal, currentPort, realTimeServer, mode,
                       detPort, rts, rtsPort, dev, opened, cBusy, autoOpen>>
        /\ UNCHANGED otherVars

\* lines 146-149: createTerminal has returned; waitForPort probes the ports
ExecTerminalCreated ==
    \E e \in Execs :
        /\ pc[e] = "term"
        /\ currentTerminal' = e
        /\ \E p \in WaitForPort(PreferredPort(mode[e])) :
            detPort' = [detPort EXCEPT ![e] = p]
        /\ pc' = [pc EXCEPT ![e] = "port"]
        /\ UNCHANGED <<cmdIsRunning, currentPort, realTimeServer, status,
                       mode, rts, rtsPort, terms, dev, opened, cBusy,
                       autoOpen>>
        /\ UNCHANGED otherVars

\* part_004 lines 32-75 for a new object: the synchronous part of start()
\* throws, or listen() binds the port or fails to
RtsStartOutcomes == {"threw"} \cup (IF CmdInUse(Pref) THEN {"binderr"} ELSE {"bound"})

\* line 180 and part_003 lines 7-19: open(url) is called before openBrowser
\* first yields, when the setting allows it
OpenBrowser(e, p) ==
    opened' = [opened EXCEPT ![e] = IF autoOpen THEN Append(@, p) ELSE @]

\* lines 149-170 and 194-208: waitForPort has answered
ExecPortDetected ==
    \E e \in Execs :
        /\ pc[e] = "port"
        /\ IF detPort[e] = 0
           THEN /\ HandleError(e)
                /\ UNCHANGED <<currentPort, realTimeServer, rts, rtsPort, opened>>
           ELSE /\ currentPort' = detPort[e]
                /\ cmdIsRunning' = TRUE
                /\ UpdateStatus("running", detPort[e], e)
                /\ IF mode[e] = "html"
                   THEN /\ realTimeServer' = e
                        /\ \E o \in RtsStartOutcomes :
                            /\ rts' = [rts EXCEPT ![e] = o]
                            /\ rtsPort' = [rtsPort EXCEPT ![e] =
                                              IF o = "bound" THEN Pref ELSE 0]
                        /\ pc' = [pc EXCEPT ![e] = "rts"]
                        /\ UNCHANGED opened
                   ELSE IF mode[e] = "direct"
                   THEN /\ opened' = [opened EXCEPT ![e] = Append(@, FileUrl)]
                        /\ pc' = [pc EXCEPT ![e] = "opening"]
                        /\ UNCHANGED <<realTimeServer, rts, rtsPort>>
                   ELSE /\ OpenBrowser(e, detPort[e])
                        /\ pc' = [pc EXCEPT ![e] = "done"]
                        /\ UNCHANGED <<realTimeServer, rts, rtsPort>>
        /\ UNCHANGED <<currentTerminal, mode, detPort, terms, dev, cBusy,
                       autoOpen>>
        /\ UNCHANGED otherVars

\* part_004 lines 59-68: the listening callback; start() resolves with the
\* bound port
RtsListening ==
    \E e \in Execs :
        /\ rts[e] = "bound"
        /\ rts' = [rts EXCEPT ![e] = "listening"]
        /\ UNCHANGED <<cmdIsRunning, currentTerminal, currentPort,
                       realTimeServer, status, pc, mode, detPort, rtsPort,
                       terms, dev, opened, cBusy, autoOpen>>
        /\ UNCHANGED otherVars

\* the bind failure is emitted as an uncaught 'error'; start() never settles
RtsBindError ==
    \E e \in Execs :
        /\ rts[e] = "binderr"
        /\ rts' = [rts EXCEPT ![e] = "dead"]
        /\ UNCHANGED <<cmdIsRunning, currentTerminal, currentPort,
                       realTimeServer, status, pc, mode, detPort, rtsPort,
                       terms, dev, opened, cBusy, autoOpen>>
        /\ UNCHANGED otherVars

\* line 170: the await resumes once start() has resolved
AwaitedStart_any(e) == rts[e] # "none"
AwaitedStart(e) == rts[e] = "listening"

\* lines 170-185
ExecStartResolved ==
    \E e \in Execs :
        /\ pc[e] = "rts"
        /\ AwaitedStart(e)
        /\ currentPort' = rtsPort[e]
        /\ cmdIsRunning' = TRUE
        /\ UpdateStatus("running", rtsPort[e], e)
        /\ OpenBrowser(e, rtsPort[e])
        /\ pc' = [pc EXCEPT ![e] = "done"]
        /\ UNCHANGED <<currentTerminal, realTimeServer, mode, detPort, rts,
                       rtsPort, terms, dev, cBusy, autoOpen>>
        /\ UNCHANGED otherVars

\* lines 187-190 and 210-212: start() rejected
ExecStartRejected ==
    \E e \in Execs :
        /\ pc[e] = "rts"
        /\ rts[e] = "threw"
        /\ HandleError(e)
        /\ UNCHANGED <<currentTerminal, currentPort, realTimeServer, mode,
                       detPort, rts, rtsPort, terms, dev, opened, cBusy,
                       autoOpen>>
        /\ UNCHANGED otherVars

\* the program started in terminal e begins to listen, on a port of its own
\* choosing (the start commands ask for --port=0)
DevBind ==
    \E e \in Execs :
        /\ e \in terms
        /\ mode[e] = "terminal"
        /\ dev[e] = 0
        /\ \E p \in CmdPorts :
            /\ ~CmdInUse(p)
            /\ dev' = [dev EXCEPT ![e] = p]
        /\ UNCHANGED <<cmdIsRunning, currentTerminal, currentPort,
                       realTimeServer, status, pc, mode, detPort, rts,
                       rtsPort, terms, opened, cBusy, autoOpen>>
        /\ UNCHANGED otherVars

InitCmd ==
    /\ LifeIdle
    /\ HttpIdle
    /\ WatchIdle
    /\ DetectIdle
    /\ CmdFields
    /\ cBusy \in SUBSET CmdPorts
    /\ autoOpen \in BOOLEAN
    /\ TailIdle

NextCmd ==
    \/ ExecInvoke
    \/ ExecPrepared
    \/ ExecTerminalCreated
    \/ ExecPortDetected
    \/ RtsListening
    \/ RtsBindError
    \/ ExecStartResolved
    \/ ExecStartRejected
    \/ DevBind

SpecCmd == InitCmd /\ [][NextCmd]_vars

\* ------------------------------------------- start, stop, restart, the menu
\* startDev.ts lines 47-75: a uri of an HTML file offers both modes
UriModes == Modes \cup {"direct"}

\* execute() called without a uri works on the workspace folder, which is
\* no single file (part_002 lines 334-337)
FolderModes == {"terminal"}

\* what execute() was called on
Target(e) == IF mode[e] \in {"html", "direct"} THEN "file" ELSE "folder"

\* a callback of the tick queue or a promise continuation is due: they
\* run before the next command is dispatched.  createTerminal has no
\* await of its own, start() resolves in the listening callback.
CmdDraining ==
    \E e \in Execs :
        \/ pc[e] = "term"
        \/ rts[e] \in {"bound", "binderr"}
        \/ pc[e] = "rts" /\ rts[e] \in {"listening", "threw"}

\* lines 38-96 for the next invocation e, whose target allows the modes ms
Execute(e, ms) ==
    /\ pc[e] = "none"
    /\ \A d \in Execs : d < e => pc[d] # "none"
    /\ IF cmdIsRunning
       THEN /\ pc' = [pc EXCEPT ![e] = "skipped"]
            /\ UNCHANGED <<mode, status>>
       ELSE /\ \E m \in ms : mode' = [mode EXCEPT ![e] = m]
            /\ pc' = [pc EXCEPT ![e] = "detect"]
            /\ UpdateStatus("detecting", 0, e)
    /\ UNCHANGED <<cmdIsRunning, currentTerminal, currentPort, realTimeServer,
                   detPort, rts, rtsPort, terms, dev, opened, cBusy, autoOpen>>

\* portDetector.ts lines 205-207: the command right-dev.start
CmdStart ==
    /\ ~CmdDraining
    /\ \E e \in Execs : Execute(e, UriModes)
    /\ sinceStop' = FALSE
    /\ UNCHANGED <<restartPending, prev, menuOpened>>
    /\ UNCHANGED <<lifeVars, httpVars, lastOp, watchVars, detectVars,
                   bodyVars, depVars, walkVars>>

\* lines 196-199: openUrl has settled
ExecFileOpened ==
    \E e \in Execs :
        /\ pc[e] = "opening"
        /\ \/ /\ pc' = [pc EXCEPT ![e] = "done"]
              /\ UNCHANGED <<cmdIsRunning, status>>
           \/ HandleError(e)
        /\ UNCHANGED <<currentTerminal, currentPort, realTimeServer, mode,
                       detPort, rts, rtsPort, terms, dev, opened, cBusy,
                       autoOpen>>
        /\ UNCHANGED otherVars

\* part_004 lines 195-230: stop() of a RealTimeServer returns at once
\* unless its isRunning is set, which the listening callback does
RtsStop(st) == IF st = "listening" THEN "closed" ELSE st

\* startDev.ts lines 216-244: stop()
StopBody ==
    IF ~cmdIsRunning
    THEN UNCHANGED <<cmdIsRunning, currentTerminal, currentPort,
                     realTimeServer, status, rts, terms>>
    ELSE /\ terms' = terms \ {currentTerminal}
         /\ currentTerminal' = 0
         /\ rts' = IF realTimeServer # 0
                   THEN [rts EXCEPT ![realTimeServer] = RtsStop(@)]
                   ELSE rts
         /\ realTimeServer' = 0
         /\ cmdIsRunning' = FALSE
         /\ currentPort' = 0
         /\ status' = [val |-> "stopped", port |-> status.port, by |-> 0]

\* portDetector.ts lines 209-211 and 226-228: the command right-dev.stop
StopCmd ==
    /\ ~CmdDraining
    /\ StopBody
    /\ sinceStop' = TRUE
    /\ UNCHANGED <<pc, mode, detPort, rtsPort, dev, opened, cBusy, autoOpen>>
    /\ UNCHANGED <<restartPending, prev, menuOpened>>
    /\ UNCHANGED <<lifeVars, httpVars, lastOp, watchVars, detectVars,
                   bodyVars, depVars, walkVars>>

\* the execute() that reported the running session
SessionOwner == IF status.val = "running" THEN status.by ELSE 0

\* startDev.ts lines 247-253: restart() up to its first await, which is
\* execute() itself when nothing is running
RestartCmd ==
    /\ ~CmdDraining
    /\ restartPending = -1
    /\ \E e \in Execs : pc[e] = "none"
    /\ IF cmdIsRunning
       THEN /\ StopBody
            /\ restartPending' = SessionOwner
            /\ sinceStop' = TRUE
            /\ UNCHANGED <<pc, mode, detPort, rtsPort, dev, opened, cBusy,
                           autoOpen>>
       ELSE /\ \E e \in Execs : Execute(e, FolderModes)
            /\ sinceStop' = FALSE
            /\ UNCHANGED restartPending
    /\ UNCHANGED <<prev, menuOpened>>
    /\ UNCHANGED <<lifeVars, httpVars, lastOp, watchVars, detectVars,
                   bodyVars, depVars, walkVars>>

\* lines 250-253: the 500 ms have passed, execute() is called with no uri
RestartResume ==
    /\ ~CmdDraining
    /\ restartPending # -1
    /\ \E e \in Execs :
        /\ Execute(e, FolderModes)
        /\ prev' = [prev EXCEPT ![e] = restartPending]
    /\ restartPending' = -1
    /\ sinceStop' = FALSE
    /\ UNCHANGED menuOpened
    /\ UNCHANGED <<lifeVars, httpVars, lastOp, watchVars, detectVars,
                   bodyVars, depVars, walkVars>>

\* portDetector.ts lines 232-240: "open browser" of the status-bar menu
MenuOpenBrowser ==
    /\ ~CmdDraining
    /\ currentPort # 0
    /\ menuOpened' = currentPort
    /\ UNCHANGED <<sinceStop, restartPending, prev>>
    /\ UNCHANGED cmdVars
    /\ UNCHANGED <<lifeVars, httpVars, lastOp, watchVars, detectVars,
                   bodyVars, depVars, walkVars>>

InitSess ==
    /\ LifeIdle
    /\ HttpIdle
    /\ WatchIdle
    /\ DetectIdle
    /\ CmdIdle
    /\ BodyIdle
    /\ DepsIdle
    /\ WalkIdle
    /\ SessIdle

NextSess ==
    \/ CmdStart
    \/ ExecPrepared
    \/ ExecTerminalCreated
    \/ ExecPortDetected
    \/ ExecFileOpened
    \/ RtsListening
    \/ RtsBindError
    \/ ExecStartResolved
    \/ ExecStartRejected
    \/ StopCmd
    \/ RestartCmd
    \/ RestartResume
    \/ MenuOpenBrowser

SpecSess == InitSess /\ [][NextSess]_vars

\* ------------------------------------------------- execute(): dependencies
\* dependencyService.ts lines 8-34 and 62-70: only the Node and PHP project
\* types are looked at, any other type needs nothing
NeedsInstallAnswers(m) == IF m = "terminal" THEN BOOLEAN ELSE {FALSE}

\* startDev.ts line 136: the condition under which installDependencies runs
InstallWanted_always(needs) == needs
InstallWanted(needs) == needs /\ autoInstall

\* lines 143-146: updateStatus(Starting) and the call of createTerminal
CreateTerminal(e) ==
    /\ UpdateStatus("starting", 0, e)
    /\ terms' = terms \cup {e}
    /\ pc' = [pc EXCEPT ![e] = "term"]
    /\ UNCHANGED cmdIsRunning

\* lines 97-134: detection and configuration are done (or one of them
\* threw); updateStatus(Installing) and the call of checkDependencies
ExecDetected ==
    \E e \in Execs :
        /\ pc[e] = "detect"
        /\ \/ HandleError(e)
           \/ /\ UpdateStatus("installing", 0, e)
              /\ pc' = [pc EXCEPT ![e] = "deps"]
              /\ UNCHANGED cmdIsRunning
        /\ UNCHANGED <<currentTerminal, currentPort, realTimeServer, mode,
                       detPort, rts, rtsPort, terms, dev, opened, cBusy,
                       autoOpen>>
        /\ UNCHANGED depVars
        /\ UNCHANGED <<lifeVars, httpVars, lastOp, watchVars, detectVars,
                       bodyVars, walkVars, sessVars>>

\* lines 134-146: checkDependencies has answered
ExecDepsChecked ==
    \E e \in Execs :
        /\ pc[e] = "deps"
        /\ \E needs \in NeedsInstallAnswers(mode[e]) :
            /\ needsInstall' = [needsInstall EXCEPT ![e] =
                                   IF needs THEN "yes" ELSE "no"]
            /\ IF InstallWanted(needs)
               THEN /\ pc' = [pc EXCEPT ![e] = "install"]
                    /\ UNCHANGED <<status, terms, cmdIsRunning>>
               ELSE CreateTerminal(e)
        /\ UNCHANGED <<currentTerminal, currentPort, realTimeServer, mode,
                       detPort, rts, rtsPort, dev, opened, cBusy, autoOpen>>
        /\ UNCHANGED <<installed, autoInstall>>
        /\ UNCHANGED <<lifeVars, httpVars, lastOp, watchVars, detectVars,
                       bodyVars, walkVars, sessVars>>

\* lines 137-146: installDependencies has answered
ExecInstalled ==
    \E e \in Execs :
        /\ pc[e] = "install"
        /\ \E ok \in BOOLEAN :
            /\ installed' = [installed EXCEPT ![e] =
                                IF ok THEN "ok" ELSE "failed"]
            /\ IF ok
               THEN CreateTerminal(e)
               ELSE /\ HandleError(e)
                    /\ UNCHANGED terms
        /\ UNCHANGED <<currentTerminal, currentPort, realTimeServer, mode,
                       detPort, rts, rtsPort, dev, opened, cBusy, autoOpen>>
        /\ UNCHANGED <<needsInstall, autoInstall>>
        /\ UNCHANGED <<lifeVars, httpVars, lastOp, watchVars, detectVars,
                       bodyVars, walkVars, sessVars>>

InitDeps ==
    /\ LifeIdle
    /\ HttpIdle
    /\ WatchIdle
    /\ DetectIdle
    /\ CmdFields
    /\ cBusy = {}
    /\ autoOpen = TRUE
    /\ BodyIdle
    /\ DepsFields
    /\ autoInstall \in BOOLEAN
    /\ WalkIdle
    /\ SessIdle

NextDeps ==
    \/ ExecInvoke
    \/ ExecDetected
    \/ ExecDepsChecked
    \/ ExecInstalled
    \/ ExecTerminalCreated
    \/ ExecPortDetected
    \/ RtsListening
    \/ RtsBindError
    \/ ExecStartResolved
    \/ ExecStartRejected

SpecDeps == InitDeps /\ [][NextDeps]_vars

\* =============================================================== claims
\* the 'error' event of instance k has been emitted
ErrorEmitted(k) ==
    /\ srvState[k] = "binderr"
    /\ \A i \in 1..Len(tickQueue) : tickQueue[i] # <<"error", k>>

\* listen() was requested and its 'listening' callback has not fired yet
Starting == \E k \in Calls : srvState[k] = "bound"

AcceptingNext(p) ==
    \E j \in Calls : srvState'[j] \in {"bound", "listening"} /\ srvPort'[j] = p

\* C1: a request whose joined, normalised path is not contained in the root
\* is answered 403, and no response serves a file outside the root.
C1_TraversalForbidden ==
    resp.status # 0 =>
        /\ ~Contained(FilePath(resp.url)) => resp.status = 403
        /\ resp.status = 200 => Contained(resp.served)

\* C2: every start() settles: its promise is resolved once the listener is
\* listening and rejected once the bind failure has been reported; it is not
\* left pending after a bind failure.
C2_StartSettles ==
    \A k \in Calls :
        /\ ErrorEmitted(k) => promise[k] = "rejected"
        /\ srvState[k] = "listening" =>
                promise[k] = "resolved" /\ promiseVal[k] = srvPort[k]

\* C3: after a start() whose bind failed, no watcher and no WebSocket server
\* created by that call is still running, and the session is not running.
C3_FailedStartLeavesNothing ==
    \A k \in Calls :
        ErrorEmitted(k) =>
            /\ watState[k] # "watching"
            /\ wssState[k] # "open"

\* C4: a start() call made while the session is Running or Starting is
\* rejected and creates no HTTP server, WebSocket server or watcher.
C4_NoSecondStart ==
    [][(nStarts' = nStarts + 1 /\ (isRunning \/ Starting)) =>
            /\ promise'[nStarts'] = "rejected"
            /\ srvState' = srvState
            /\ wssState' = wssState
            /\ watState' = watState]_vars

\* C5: a stop() of a running session leaves every connection that was in the
\* client set closing or closed and the set empty, and at every state each
\* connection in the set was accepted by the running session's server.
C5_StopClosesClients ==
    [][/\ (isRunning /\ ~isRunning') =>
            /\ \A c \in clients : connState'[c] \in {"CLOSING", "CLOSED"}
            /\ clients' = {}
       /\ \A c \in clients' : isRunning' /\ connOwner'[c] = server']_vars

\* C6: from the moment start() resolves with port p until stop(), port p is
\* served by a listener of this object; right after the following stop()
\* no listener of this object accepts connections on p.
C6_RoundTrip ==
    [][/\ sessionPort' # 0 => AcceptingNext(sessionPort')
       /\ (lastOp' = "stop" /\ sessionPort # 0) => ~AcceptingNext(sessionPort)]_vars

C6_Witness ==
    /\ lastOp = "stop"
    /\ \E k \in Calls :
        /\ promise[k] = "resolved"
        /\ srvState[k] = "closed"
        /\ ~Accepting(promiseVal[k])

\* C7: stop() leaves the session not running, and a stop() of a session that
\* is not running changes nothing and raises nothing.
C7_StopIdempotent ==
    [][lastOp' = "stop" =>
            /\ ~isRunning'
            /\ ~isRunning => UNCHANGED <<lifeVars, httpVars>>]_vars

\* stop() was called on a session that was never started
C7_Witness ==
    /\ lastOp = "stop"
    /\ ~isRunning
    /\ nStarts = 0

C9_SkipsNonOpen ==
    [][nEvents' = nEvents + 1 =>
            /\ \A c \in Conns : connState[c] # "OPEN" => sent'[c] = sent[c]
            /\ \A c \in clients : connState[c] = "OPEN" => sent'[c] > sent[c]
            /\ uncaught' = uncaught]_vars

\* connection 1 was registered and not OPEN when the event was broadcast to
\* connection 2, which registered after it
C9_Witness ==
    /\ nEvents = 1
    /\ {1, 2} \subseteq clients
    /\ connState[1] = "CLOSING" /\ sent[1] = 0
    /\ connState[2] = "OPEN" /\ sent[2] = 1

\* C10: a request that resolves inside the root to a path that does not
\* exist is answered 200 with the session's entry file when that file
\* exists under the root, and 404 when it does not.
C10_FallbackToEntry ==
    resp.status # 0 =>
        LET fp == FilePath(resp.url)
            entry == Join(rootPath, <<entryFile>>) IN
        (Contained(fp) /\ ~Exists(fp)) =>
            IF entry \in files
            THEN resp.status = 200 /\ resp.served = entry
            ELSE resp.status = 404

\* C11: a request for "/" is answered 200 with the session's entry file,
\* the reload script added to its contents, and an HTML Content-Type.
C11_RootServesEntryWithScript ==
    (resp.status # 0 /\ resp.url = <<>>) =>
        LET entry == Join(rootPath, <<entryFile>>) IN
        entry \in files =>
            /\ resp.status = 200
            /\ resp.served = entry
            /\ resp.injected
            /\ resp.ctype = "text/html"

\* line 241: getPort()
GetPort == port

\* line 143: the port in the WebSocket URL of the injected script
ScriptPort == port

\* C12: during a session the port the controller holds (the one in the
\* injected script and the one getPort() returns) is the port the listener
\* is bound to, also when the configured port is 0.
C12_HeldPortIsBoundPort ==
    (isRunning /\ server # 0 /\ srvState[server] = "listening") =>
        /\ GetPort = srvPort[server]
        /\ ScriptPort = srvPort[server]

\* the lifecycle state of the object, read off its fields: a start() is in
\* flight while one of its notifications is queued; a start() that failed
\* leaves the fields of line 39-55 set and the flag clear
LifeState ==
    IF isRunning THEN "Running"
    ELSE IF tickQueue # <<>> THEN "Starting"
    ELSE IF server # 0 THEN "Error"
    ELSE "Idle"

LifeMoves ==
    {<<"Idle", "Starting">>, <<"Starting", "Running">>, <<"Running", "Idle">>,
     <<"Starting", "Error">>, <<"Error", "Starting">>}

C18_ClientSetExact ==
    /\ \A c \in clients :
          /\ wss # 0 /\ connOwner[c] = wss
          /\ connState[c] \in {"OPEN", "CLOSING"}
    /\ \A c \in Conns :
          (wss # 0 /\ connOwner[c] = wss /\ connState[c] = "OPEN")
              => c \in clients

\* C20: a watcher error leaves the listener, the WebSocket server, the
\* connections, the client set and the running flag as they were, and no
\* exception escapes.
C20_WatcherErrorContained ==
    [][(\E k \in Calls : watState[k] = "watching" /\ watState'[k] = "failed")
        => /\ UNCHANGED <<server, wss, watcher, srvState, srvPort, wssState>>
           /\ UNCHANGED <<clients, connState, isRunning, uncaught>>]_vars

C20_Witness ==
    \E k \in Calls :
        /\ watState[k] = "failed" /\ watcher = k
        /\ isRunning /\ srvState[k] = "listening" /\ wssState[k] = "open"
        /\ clients # {}
        /\ ~uncaught

\* the part of path p below the root has a segment named node_modules,
\* .git or .DS_Store
InIgnoredDir(p) ==
    \E i \in (Len(rootPath) + 1)..Len(p) :
        Len(p[i]) = 1 /\ p[i][1] \in IgnoredNames

\* C19: a modification of a file below the root that is not in
\* node_modules, .git or .DS_Store yields a reload; only those paths are
\* left out.
C19_OnlyNamedPathsIgnored ==
    notified \in {"reload", "ignored"} =>
        (notified = "ignored" <=> InIgnoredDir(changed))

\* C17: a framework type is reported only when the characteristic files
\* of the README table are all present.
C17_TypeNeedsItsFiles ==
    /\ detected = "laravel" => {"artisan", "composer.json"} \subseteq dirFiles
    /\ detected = "symfony" =>
          {"symfony.lock", "composer.json"} \subseteq dirFiles
    /\ detected = "cra" =>
          "package.json" \in dirFiles /\ "react-scripts" \in pkgDeps
    /\ detected = "php" => "index.php" \in dirFiles

\* C14: in an HTML real-time session the browser opener is called at most
\* once per execute(), after start() has resolved and with the port it
\* resolved with; an execute() whose start() failed never calls it.
C14_OpensAfterStart ==
    [][\A e \in Execs : mode'[e] = "html" =>
          /\ opened'[e] # opened[e] =>
                /\ rts[e] = "listening"
                /\ opened[e] = <<>>
                /\ opened'[e] = <<rtsPort[e]>>
          /\ pc'[e] = "failed" => opened'[e] = <<>>]_vars

C14_Witness ==
    \E e \in Execs :
        /\ mode[e] = "html" /\ pc[e] = "done"
        /\ rts[e] = "listening"
        /\ opened[e] = <<rtsPort[e]>>

\* C15: Running is reported only once the server has started, with the port
\* it is bound to; an execute() that failed has reported error.
C15_RunningAfterStart ==
    /\ (status.val = "running" /\ mode[status.by] = "html") =>
          /\ rts[status.by] = "listening"
          /\ status.port = rtsPort[status.by]
    /\ \A e \in Execs :
          (pc[e] = "failed" /\ status.by = e) => status.val = "error"

\* C16: when the opener is called for a terminal-launched server, that
\* server is accepting connections on the port passed.
C16_OpensOnBoundPort ==
    [][\A e \in Execs :
          (mode[e] = "terminal" /\ opened'[e] # opened[e]) =>
              /\ dev[e] # 0
              /\ opened'[e][Len(opened'[e])] = dev[e]]_vars

\* the path handleRequest ends up reading for url (<<>> when it answers
\* without reading)
ReadTarget(url) ==
    LET fp == FilePath(url) IN
    IF ~InRoot(fp) THEN <<>>
    ELSE IF Exists(fp) THEN fp
    ELSE IF Exists(FallbackPath) THEN FallbackPath
    ELSE <<>>

\* C21: every request gets one response with status 200, 403, 404 or 500;
\* a path that exists but cannot be read (a directory, a file without
\* permission) gives 500, and 200 is given only for a file that was read;
\* no exception escapes and the fields of the session are as they were.
C21_RequestContained ==
    resp # NoResp =>
        /\ resp.status \in {200, 403, 404, 500}
        /\ ReadTarget(resp.url) # <<>> =>
              IF ReadTarget(resp.url) \in files \ unreadable
              THEN resp.status = 200
              ELSE resp.status = 500
        /\ ~uncaught
        /\ ~isRunning /\ server = 0 /\ wss = 0 /\ watcher = 0 /\ clients = {}

C21_Witness ==
    /\ resp.status = 500
    /\ ReadTarget(resp.url) \in unreadable

\* the positions of str that hold x
Positions(str, x) == {i \in 1..Len(str) : str[i] = x}

\* a closing body tag, in either case
IsCloseTag(t) == t \in {TagClose, TagCloseUpper}

\* str without its i-th element
Without(str, i) == SubSeq(str, 1, i - 1) \o SubSeq(str, i + 1, Len(str))

\* C22: the body of an HTML file is its content with the script inserted
\* exactly once, immediately before the closing body tag of the document
\* (the last one), and nothing else changed; any other file is unmodified.
C22_ScriptBeforeClosingTag ==
    body # NoBody =>
        IF contentHtml
        THEN /\ Cardinality(Positions(body, Script)) = 1
             /\ LET i == CHOOSE i \in Positions(body, Script) : TRUE IN
                 /\ Without(body, i) = content
                 /\ i < Len(body) /\ IsCloseTag(body[i + 1])
                 /\ \A j \in (i + 2)..Len(body) : ~IsCloseTag(body[j])
        ELSE body = content

\* installDependencies was called by execute() e
InstallInvoked(e) == pc[e] = "install" \/ installed[e] # "none"

\* C23: installDependencies is called exactly when checkDependencies
\* reported missing dependencies and autoInstall is on; the terminal is
\* created only after the check, and after a called installation returned
\* true; when it returns false the execute() creates no terminal, detects
\* no port, reports Error and leaves isRunning false.
C23_InstallBeforeTerminal ==
    [][\A e \in Execs :
          /\ needsInstall'[e] # "unknown" =>
                (InstallInvoked(e)' <=> (needsInstall'[e] = "yes" /\ autoInstall'))
          /\ needsInstall'[e] = "unknown" => ~InstallInvoked(e)'
          /\ e \in terms' =>
                /\ needsInstall'[e] # "unknown"
                /\ InstallInvoked(e)' => installed'[e] = "ok"
          /\ installed'[e] = "failed" =>
                /\ e \notin terms' /\ currentTerminal' # e
                /\ detPort'[e] = 0
                /\ pc'[e] = "failed"
          /\ (installed'[e] = "failed" /\ installed[e] # "failed") =>
                /\ status'.val = "error"
                /\ ~cmdIsRunning']_vars

C23_Witness ==
    \E e \in Execs :
        /\ needsInstall[e] = "yes" /\ autoInstall
        /\ installed[e] = "failed"
        /\ pc[e] = "failed" /\ status.val = "error" /\ ~cmdIsRunning

\* the directories detectProjectType may look at: the start directory and
\* its ancestors, five in all at most
InReach == 1..(IF Len(chain) < 5 THEN Len(chain) ELSE 5)

\* C24: detectProjectType looks at the start directory and then at its
\* ancestors, nearest first, five directories at most; it returns the type
\* of the nearest of them that matches and null when none does, and it
\* ends at the filesystem root.
C24_NearestOfFive ==
    /\ Len(examined) <= 5
    /\ \A i \in 1..Len(examined) : examined[i] = i /\ i <= Len(chain)
    /\ ~Walking =>
          IF \E i \in InReach : chain[i] # "null"
          THEN LET n == CHOOSE i \in InReach :
                           /\ chain[i] # "null"
                           /\ \A j \in 1..(i - 1) : chain[j] = "null"
               IN /\ walkResult = chain[n]
                  /\ Len(examined) = n
          ELSE /\ walkResult = "null"
               /\ Len(examined) = Cardinality(InReach)

\* a match in the sixth directory is not returned
C24_Witness ==
    /\ Len(chain) = 6 /\ chain[6] # "null"
    /\ walkResult = "null"
    /\ Len(examined) = 5

\* C25: an execute() in the direct mode of an HTML file creates no
\* terminal, uses no port, never reports Running and never sets isRunning,
\* so that it does not make a later execute() return as already running.
C25_DirectStartsNothing ==
    [][\A e \in Execs : mode'[e] = "direct" =>
          /\ e \notin terms' /\ currentTerminal' # e
          /\ detPort'[e] = 0
          /\ ~(status'.val = "running" /\ status'.by = e)
          /\ pc'[e] # pc[e] => (cmdIsRunning' => cmdIsRunning)]_vars

\* the RealTimeServer created by execute() e holds its port
RtsAlive(e) == rts[e] \in {"bound", "listening"}

\* C26: once a stop() has returned and execute() is not called again, no
\* RealTimeServer of the command is or becomes listening and isRunning
\* stays false, whatever was in progress when stop() was called.
C26_StoppedStaysStopped ==
    sinceStop =>
        /\ ~cmdIsRunning
        /\ \A e \in Execs : ~RtsAlive(e)

\* C27: at most one terminal created by the command is alive, and once
\* createTerminal has returned it to execute() it is the one currentTerminal
\* refers to.
C27_OneTerminal ==
    LET held == {e \in terms : pc[e] # "term"} IN
    /\ Cardinality(held) <= 1
    /\ \A e \in held : currentTerminal = e

\* C28: when stop() is called after an execute() has failed, the terminal
\* and the RealTimeServer that execute() had created are not alive
\* afterwards.
C28_FailureCleansUp ==
    [][(~sinceStop /\ sinceStop') =>
          \A e \in Execs : pc[e] = "failed" =>
              /\ e \notin terms'
              /\ ~RtsAlive(e)']_vars

\* no execute() is between its invocation and its return (an execute()
\* whose start() never settles stays where it is for good)
CmdSettled ==
    /\ ~CmdDraining
    /\ restartPending = -1
    /\ \A e \in Execs :
          \/ pc[e] \in {"none", "skipped", "done", "failed"}
          \/ pc[e] = "rts" /\ rts[e] \in {"dead", "closed"}

\* C29: when no call is in progress, currentPort is set exactly when
\* isRunning is; the menu opens the browser only for a running session.
C29_PortIffRunning ==
    [][/\ CmdSettled' => ((currentPort' # 0) <=> cmdIsRunning')
       /\ menuOpened' # menuOpened => cmdIsRunning]_vars

\* C30: the execute() that restart() calls after stopping a running
\* session is called when that session's terminal and RealTimeServer are
\* disposed, and on the target the session was started on.
C30_RestartSameTarget ==
    [][\A e \in Execs :
          (pc[e] = "none" /\ pc'[e] = "detect" /\ prev'[e] # 0) =>
              /\ prev'[e] \notin terms
              /\ ~RtsAlive(prev'[e])
              /\ Target(e)' = Target(prev'[e])]_vars

====
